---- MODULE Spec2Model ----
(***************************************************************************)
(* A model of web_server/app.py: the start-up routine wait_for_ollama      *)
(* (liveness probe, model listing, streaming pull, verification), the      *)
(* __main__ block that serves only after it returned True, and the /chat   *)
(* and /reset handlers that share conversation_history.                    *)
(***************************************************************************)
EXTENDS Integers, Sequences, FiniteSets, TLC

VARIABLES
    pc,                   \* position of the main thread
    timeout,              \* wait_for_ollama's parameter
    clock,                \* time.time() - start_time, read at line 38
    attempts,             \* liveness requests issued so far (line 40)
    alive,                \* the probe loop was left by its break (line 43)
    listing,              \* outcome of the first client.models.list() (line 69)
    model_exists,         \* local model_exists (lines 65-108)
    lines,                \* the lines response.iter_lines() yields (line 130)
    idx,                  \* how many of them the loop has consumed
    last_status,          \* local last_status (line 128)
    shown,                \* statuses printed so far (line 138)
    final_list,           \* outcome of the second client.models.list() (line 164)
    listCalls,            \* listing requests issued in this run
    pullCalls,            \* pull requests issued in this run
    ret,                  \* wait_for_ollama's return value, "none" while running
    conversation_history, \* the global list of line 25
    hpc,                  \* position of each request-handling thread inside chat()
    hbody,                \* the message field of the request a thread is handling
    hpre,                 \* conversation_history as it was when the thread's request began
    hsent,                \* the request the thread passed to the backend (lines 209-213)
    hreset,               \* /reset ran between the thread's append and the return of its call
    begun,                \* messages appended by /chat so far (line 204)
    turnlog,              \* the <<user text, reply>> of every successful turn since the last reset
    last                  \* the request that completed in the latest step, if one did

startupVars == <<pc, timeout, clock, attempts, alive, listing, model_exists, lines,
                 idx, last_status, shown, final_list, listCalls, pullCalls, ret>>

servingVars == <<conversation_history, hpc, hbody, hpre, hsent, hreset, begun, turnlog, last>>

vars == <<startupVars, servingVars>>

----------------------------------------------------------------------------
(* Program constants *)

MODEL_NAME == "qwen3:4b"
OTHER_MODEL == "llama3:8b"
Absent == "<absent>"

DEFAULT_TIMEOUT == 600
PROBE_TIMEOUT == 5
RETRY_SLEEP == 5

(* Bounds of the model *)

MaxTimeout == 11      \* wait_for_ollama's timeout is drawn from 0..MaxTimeout or is the default
MaxModels == 2        \* descriptors in one model listing
MaxLines == 2         \* lines in one pull stream
MaxTurns == 2         \* messages /chat accepts in one run of the server

----------------------------------------------------------------------------
(* Inputs from the backend *)

SeqsUpTo(S, n) == UNION {[1..k -> S] : k \in 0..n}

\* What requests.get(OLLAMA_HOST, timeout=5) followed by raise_for_status() can do.
ProbeFailures == {"ConnectionError", "Timeout", "RequestException", "Exception"}
ProbeOutcomes == {"ok"} \cup ProbeFailures

\* How long one liveness request takes; a timed-out one takes the whole per-attempt timeout.
ProbeDurations(outcome) ==
    IF outcome = "Timeout" THEN {PROBE_TIMEOUT} ELSE 0..PROBE_TIMEOUT

\* A model descriptor: its id and name attributes, either of which may be missing.
Descriptors ==
    { [id |-> MODEL_NAME, name |-> Absent],
      [id |-> OTHER_MODEL, name |-> Absent],
      [id |-> Absent, name |-> MODEL_NAME],
      [id |-> OTHER_MODEL, name |-> MODEL_NAME] }

NoListing == [kind |-> "none", data |-> <<>>]

\* What client.models.list() can do: raise, return a falsy response, return a page
\* without data, with data that is no list, or with a list of descriptors.
ListFailureKinds == {"APIConnectionError", "Exception", "Falsy", "NoData", "NotList"}
ListOutcomes ==
    {[kind |-> k, data |-> <<>>] : k \in ListFailureKinds}
    \cup {[kind |-> "List", data |-> d] : d \in SeqsUpTo(Descriptors, MaxModels)}

\* getattr(model, 'id', getattr(model, 'name', None))
Identifier(m) == IF m.id # Absent THEN m.id ELSE m.name

\* A scan that looks at the first descriptor only.
AnyMatchFirst(data) ==
    IF data = <<>> THEN FALSE ELSE Identifier(Head(data)) = MODEL_NAME

RECURSIVE AnyMatch(_)
\* any(getattr(model, 'id', getattr(model, 'name', None)) == MODEL_NAME for model in data)
AnyMatch(data) ==
    IF data = <<>> THEN FALSE
    ELSE Identifier(Head(data)) = MODEL_NAME \/ AnyMatch(Tail(data))

\* An existence check that takes a listing it could not read for a model that is there.
ModelExistsAssumed(out) ==
    IF out.kind = "List" THEN AnyMatch(out.data) ELSE TRUE

\* Lines 72-108: model_exists after the first listing. model_list_response is truthy
\* when the call returned a page; models_data is its data attribute, None when missing.
ModelExistsAfterList(out) ==
    LET responded == out.kind \in {"NoData", "NotList", "List"}
        has_data == responded /\ out.kind # "NoData"
    IN  IF has_data
           THEN IF out.kind = "List" THEN AnyMatch(out.data) ELSE FALSE
           ELSE FALSE

\* A verification that is satisfied by any listing that is a list.
VerifyFindsAnyList(out) == out.kind = "List"

\* Lines 164-166: the verification reads .data of the response without any guard, so a
\* raising call and a falsy (None) response both end in the except clause of line 172.
VerifyFinds(out) ==
    IF out.kind = "List" THEN AnyMatch(out.data) ELSE FALSE

\* The lines of a pull stream, by what json.loads(line.decode('utf-8')) makes of them.
PullLines == {"empty", "garbage", "scalar", "statusA", "statusB", "error", "statusError"}

\* json.loads of a line: decoded (no JSONDecodeError), a dict or not, and its fields.
JsonLoads(line) ==
    CASE line = "garbage"     -> [decoded |-> FALSE, dict |-> FALSE, status |-> Absent, error |-> Absent]
      [] line = "scalar"      -> [decoded |-> TRUE, dict |-> FALSE, status |-> Absent, error |-> Absent]
      [] line = "statusA"     -> [decoded |-> TRUE, dict |-> TRUE, status |-> "pulling manifest", error |-> Absent]
      [] line = "statusB"     -> [decoded |-> TRUE, dict |-> TRUE, status |-> "success", error |-> Absent]
      [] line = "error"       -> [decoded |-> TRUE, dict |-> TRUE, status |-> Absent, error |-> "pull failed"]
      [] line = "statusError" -> [decoded |-> TRUE, dict |-> TRUE, status |-> "pulling manifest", error |-> "pull failed"]
      [] OTHER                -> [decoded |-> FALSE, dict |-> FALSE, status |-> Absent, error |-> Absent]

\* A loop body that looks for the error field only in chunks without a status
\* (an elif at line 140).
ProcessLineElif(line, prev) ==
    LET chunk == JsonLoads(line)
        live == line # "empty" /\ chunk.decoded /\ chunk.dict
        fresh == live /\ chunk.status # Absent /\ chunk.status # prev
    IN  [ last_status |-> IF fresh THEN chunk.status ELSE prev,
          printed |-> fresh,
          abort |-> live /\ chunk.status = Absent /\ chunk.error # Absent ]

\* A loop body without the except clause of line 143: a line that does not decode
\* ends the pull.
ProcessLineStrict(line, prev) ==
    LET chunk == JsonLoads(line)
        live == line # "empty" /\ chunk.decoded /\ chunk.dict
        fresh == live /\ chunk.status # Absent /\ chunk.status # prev
    IN  [ last_status |-> IF fresh THEN chunk.status ELSE prev,
          printed |-> fresh,
          abort |-> (live /\ chunk.error # Absent) \/ (line # "empty" /\ ~chunk.decoded) ]

\* Lines 131-146 for one line: the new last_status, whether a status was printed, and
\* whether line 142 returns False. An empty line is skipped by line 131; a line that
\* does not decode is caught at line 143; a chunk that is no dict raises TypeError at
\* line 134, caught at line 145.
ProcessLine(line, prev) ==
    LET chunk == JsonLoads(line)
        live == line # "empty" /\ chunk.decoded /\ chunk.dict
        fresh == live /\ chunk.status # Absent /\ chunk.status # prev
    IN  [ last_status |-> IF fresh THEN chunk.status ELSE prev,
          printed |-> fresh,
          abort |-> live /\ chunk.error # Absent ]

\* Lines 25 and 239: the seed of the conversation.
Seed == <<[role |-> "system", content |-> "You are a helpful assistant."]>>

Message(role, content) == [role |-> role, content |-> content]

\* The threads of the development server that handle requests.
Handlers == {"t1", "t2"}

\* The message field of a /chat request: missing, empty, or a text.
NoMessage == "<no message field>"
UserTexts == {"Hi", "Yo"}
Bodies == {NoMessage, ""} \cup UserTexts

\* What client.chat.completions.create(...) and lines 216-217 can do: a reply text
\* (the empty text included), an exception of the call, a result without choices
\* (IndexError at line 216) or with content None (TypeError at line 217).
Replies == {"Hello!", ""}
ChatFailures == {"APIConnectionError", "APIError", "NoChoices", "NoContent"}

\* Lines 209-213: the arguments of client.chat.completions.create.
CompletionRequest(messages) == [messages |-> messages, model |-> MODEL_NAME, stream |-> FALSE]

\* No call has been issued.
NoRequest == [messages |-> <<>>, model |-> Absent, stream |-> FALSE]

NoLast == [op |-> "none", h |-> "", status |-> 0, body |-> NoMessage, called |-> FALSE,
           pre |-> <<>>, sent |-> NoRequest, payload |-> "", resets |-> FALSE]

Completed(op, h, status, body, called, pre, sent, payload) ==
    [op |-> op, h |-> h, status |-> status, body |-> body, called |-> called,
     pre |-> pre, sent |-> sent, payload |-> payload, resets |-> FALSE]

----------------------------------------------------------------------------
(* Start-up: wait_for_ollama *)

Timeouts == (0..MaxTimeout) \cup {DEFAULT_TIMEOUT}

\* Line 25 and the handlers' threads: the state once the module is loaded.
ServingInit ==
    /\ conversation_history = Seed
    /\ hpc = [h \in Handlers |-> "idle"]
    /\ hbody = [h \in Handlers |-> NoMessage]
    /\ hpre = [h \in Handlers |-> <<>>]
    /\ hsent = [h \in Handlers |-> NoRequest]
    /\ hreset = [h \in Handlers |-> FALSE]
    /\ begun = 0
    /\ turnlog = <<>>
    /\ last = NoLast

StartupInit(t) ==
    /\ ServingInit
    /\ pc = "probe"
    /\ timeout = t
    /\ clock = 0
    /\ attempts = 0
    /\ alive = FALSE
    /\ listing = NoListing
    /\ model_exists = FALSE
    /\ lines = <<>>
    /\ idx = 0
    /\ last_status = ""
    /\ shown = <<>>
    /\ final_list = NoListing
    /\ listCalls = 0
    /\ pullCalls = 0
    /\ ret = "none"

\* A loop condition that still holds when the budget is exactly used up.
BudgetLeftInclusive == clock <= timeout

\* Line 38, the loop condition.
BudgetLeft == clock < timeout

\* A probe loop without the break of line 43: it polls again after a success.
ProbeAttemptNoBreak ==
    /\ pc = "probe"
    /\ clock < timeout
    /\ \E outcome \in ProbeOutcomes : \E d \in ProbeDurations(outcome) :
        /\ attempts' = attempts + 1
        /\ IF outcome = "ok"
              THEN /\ clock' = clock + d
                   /\ alive' = TRUE
              ELSE /\ clock' = clock + d + RETRY_SLEEP
                   /\ alive' = alive
        /\ pc' = "probe"
    /\ UNCHANGED servingVars
    /\ UNCHANGED <<timeout, listing, model_exists, lines, idx, last_status, shown,
                   final_list, listCalls, pullCalls, ret>>

\* Lines 38-56: one pass of the probe loop. A successful request breaks out of the
\* loop; every failure sleeps RETRY_SLEEP and goes back to the loop condition.
ProbeAttempt ==
    /\ pc = "probe"
    /\ BudgetLeft
    /\ \E outcome \in ProbeOutcomes : \E d \in ProbeDurations(outcome) :
        /\ attempts' = attempts + 1
        /\ IF outcome = "ok"
              THEN /\ clock' = clock + d
                   /\ alive' = TRUE
                   /\ pc' = "alive"
              ELSE /\ clock' = clock + d + RETRY_SLEEP
                   /\ alive' = alive
                   /\ pc' = "probe"
    /\ UNCHANGED servingVars
    /\ UNCHANGED <<timeout, listing, model_exists, lines, idx, last_status, shown,
                   final_list, listCalls, pullCalls, ret>>

\* A probe loop whose exhaustion falls through to the listing instead of returning.
ProbeGiveUpFallsThrough ==
    /\ pc = "probe"
    /\ ~BudgetLeft
    /\ ret' = ret
    /\ pc' = "alive"
    /\ UNCHANGED servingVars
    /\ UNCHANGED <<timeout, clock, attempts, alive, listing, model_exists, lines, idx,
                   last_status, shown, final_list, listCalls, pullCalls>>

\* Lines 57-59: the loop's else clause, taken when the condition fails.
ProbeGiveUp ==
    /\ pc = "probe"
    /\ ~BudgetLeft
    /\ ret' = "False"
    /\ pc' = "returned"
    /\ UNCHANGED servingVars
    /\ UNCHANGED <<timeout, clock, attempts, alive, listing, model_exists, lines, idx,
                   last_status, shown, final_list, listCalls, pullCalls>>

\* Lines 62-108: the first listing and the existence check. The probe's clock and
\* attempt count are bookkeeping of the loop above: nothing after line 59 reads
\* them, and the model stops tracking them here.
ListModels ==
    /\ pc = "alive"
    /\ \E out \in ListOutcomes :
        /\ listing' = out
        /\ model_exists' = ModelExistsAfterList(out)
    /\ listCalls' = listCalls + 1
    /\ clock' = 0
    /\ attempts' = 0
    /\ pc' = "check"
    /\ UNCHANGED servingVars
    /\ UNCHANGED <<timeout, alive, lines, idx, last_status, shown, final_list, pullCalls, ret>>

\* Lines 112-114.
ModelPresent ==
    /\ pc = "check"
    /\ model_exists
    /\ ret' = "True"
    /\ pc' = "returned"
    /\ UNCHANGED servingVars
    /\ UNCHANGED <<timeout, clock, attempts, alive, listing, model_exists, lines, idx,
                   last_status, shown, final_list, listCalls, pullCalls>>

\* What requests.post(pull_url, ...) followed by raise_for_status() can do.
PullFailures == {"Timeout", "RequestException", "Exception"}

\* Lines 116-128, the request succeeding: the response will yield some finite stream.
PullRequest ==
    /\ pc = "check"
    /\ ~model_exists
    /\ pullCalls' = pullCalls + 1
    /\ \E stream \in SeqsUpTo(PullLines, MaxLines) : lines' = stream
    /\ idx' = 0
    /\ last_status' = ""
    /\ pc' = "stream"
    /\ UNCHANGED servingVars
    /\ UNCHANGED <<timeout, clock, attempts, alive, listing, model_exists, shown,
                   final_list, listCalls, ret>>

\* Lines 116-126 and 149-158, the request failing: timeout, transport error or a bad
\* status code; every one of them returns False.
PullRequestFails ==
    /\ pc = "check"
    /\ ~model_exists
    /\ pullCalls' = pullCalls + 1
    /\ \E e \in PullFailures : ret' = "False"
    /\ pc' = "returned"
    /\ UNCHANGED servingVars
    /\ UNCHANGED <<timeout, clock, attempts, alive, listing, model_exists, lines, idx,
                   last_status, shown, final_list, listCalls>>

\* Lines 130-146: one pass of the loop over the stream.
PullLine ==
    /\ pc = "stream"
    /\ idx < Len(lines)
    /\ LET r == ProcessLine(lines[idx + 1], last_status)
       IN  /\ idx' = idx + 1
           /\ last_status' = r.last_status
           /\ shown' = IF r.printed THEN Append(shown, r.last_status) ELSE shown
           /\ IF r.abort
                 THEN /\ ret' = "False"
                      /\ pc' = "returned"
                 ELSE /\ ret' = ret
                      /\ pc' = "stream"
    /\ UNCHANGED servingVars
    /\ UNCHANGED <<timeout, clock, attempts, alive, listing, model_exists, lines,
                   final_list, listCalls, pullCalls>>

\* Lines 130 and 149-158: the stream breaks (timeout or transport error) while it is
\* being read.
PullBroken ==
    /\ pc = "stream"
    /\ ret' = "False"
    /\ pc' = "returned"
    /\ UNCHANGED servingVars
    /\ UNCHANGED <<timeout, clock, attempts, alive, listing, model_exists, lines, idx,
                   last_status, shown, final_list, listCalls, pullCalls>>

\* Line 147: the stream is exhausted.
PullEnd ==
    /\ pc = "stream"
    /\ idx = Len(lines)
    /\ pc' = "verify"
    /\ UNCHANGED servingVars
    /\ UNCHANGED <<timeout, clock, attempts, alive, listing, model_exists, lines, idx,
                   last_status, shown, final_list, listCalls, pullCalls, ret>>

\* Lines 161-174: the verification listing.
Verify ==
    /\ pc = "verify"
    /\ \E out \in ListOutcomes :
        /\ final_list' = out
        /\ ret' = IF VerifyFinds(out) THEN "True" ELSE "False"
    /\ listCalls' = listCalls + 1
    /\ pc' = "returned"
    /\ UNCHANGED servingVars
    /\ UNCHANGED <<timeout, clock, attempts, alive, listing, model_exists, lines, idx,
                   last_status, shown, pullCalls>>

\* Lines 248-250: wait_for_ollama returned False and the process exits. The frame of
\* wait_for_ollama is gone: its locals and the counts of its run take their initial
\* values again, its return value and whether the probe succeeded are kept.
MainExit ==
    /\ pc = "returned"
    /\ ret # "True"
    /\ pc' = "exited"
    /\ listing' = NoListing /\ model_exists' = FALSE /\ lines' = <<>> /\ idx' = 0
    /\ last_status' = "" /\ shown' = <<>> /\ final_list' = NoListing
    /\ listCalls' = 0 /\ pullCalls' = 0 /\ clock' = 0 /\ attempts' = 0
    /\ UNCHANGED <<timeout, alive, ret>>
    /\ UNCHANGED servingVars

\* A __main__ block that starts the server whatever wait_for_ollama returned.
MainServeUnchecked ==
    /\ pc = "returned"
    /\ pc' = "serving"
    /\ listing' = NoListing /\ model_exists' = FALSE /\ lines' = <<>> /\ idx' = 0
    /\ last_status' = "" /\ shown' = <<>> /\ final_list' = NoListing
    /\ listCalls' = 0 /\ pullCalls' = 0 /\ clock' = 0 /\ attempts' = 0
    /\ UNCHANGED <<timeout, alive, ret>>
    /\ UNCHANGED servingVars

\* Lines 252-255: wait_for_ollama returned True and app.run starts serving.
MainServe ==
    /\ pc = "returned"
    /\ ret = "True"
    /\ pc' = "serving"
    /\ listing' = NoListing /\ model_exists' = FALSE /\ lines' = <<>> /\ idx' = 0
    /\ last_status' = "" /\ shown' = <<>> /\ final_list' = NoListing
    /\ listCalls' = 0 /\ pullCalls' = 0 /\ clock' = 0 /\ attempts' = 0
    /\ UNCHANGED <<timeout, alive, ret>>
    /\ UNCHANGED servingVars

----------------------------------------------------------------------------
(* Serving: chat() and reset_chat() *)

Idle(h) == hpc[h] = "idle"
AllIdle == \A h \in Handlers : Idle(h)

\* Lines 204-213: the thread has appended its user message and its backend call has
\* not returned yet.
InFlight(h) == hpc[h] \in {"call", "wait"}

\* The handler's thread goes back to waiting for a request.
Release(h) ==
    /\ hpc' = [hpc EXCEPT ![h] = "idle"]
    /\ hbody' = [hbody EXCEPT ![h] = NoMessage]
    /\ hpre' = [hpre EXCEPT ![h] = <<>>]
    /\ hsent' = [hsent EXCEPT ![h] = NoRequest]
    /\ hreset' = [hreset EXCEPT ![h] = FALSE]

\* An emptiness check that lets every message through.
FalsyNever(body) == FALSE

\* Line 197: "not user_message".
Falsy(body) == body = ""

\* Lines 195-204, a /chat request arriving. A body without a message field raises at
\* line 196 and control goes to line 226; an empty message is answered with 400 at
\* line 198; any other message is appended to the history at line 204.
ChatBegin(h) ==
    /\ pc = "serving"
    /\ Idle(h)
    /\ \E body \in Bodies :
        IF body = NoMessage
           THEN /\ hpc' = [hpc EXCEPT ![h] = "except"]
                /\ hbody' = [hbody EXCEPT ![h] = body]
                /\ hpre' = [hpre EXCEPT ![h] = conversation_history]
                /\ last' = NoLast
                /\ UNCHANGED <<conversation_history, begun>>
           ELSE IF Falsy(body)
           THEN /\ last' = Completed("chat", h, 400, body, FALSE, conversation_history,
                                     NoRequest, "Empty message")
                /\ UNCHANGED <<conversation_history, hpc, hbody, hpre, begun>>
           ELSE /\ begun < MaxTurns
                /\ begun' = begun + 1
                /\ conversation_history' = Append(conversation_history, Message("user", body))
                /\ hpc' = [hpc EXCEPT ![h] = "call"]
                /\ hbody' = [hbody EXCEPT ![h] = body]
                /\ hpre' = [hpre EXCEPT ![h] = conversation_history]
                /\ last' = NoLast
    /\ UNCHANGED <<hsent, hreset, turnlog>>
    /\ UNCHANGED startupVars

\* A call that passes only the newest message instead of the whole history.
ChatCallLastOnly(h) ==
    /\ pc = "serving"
    /\ hpc[h] = "call"
    /\ hsent' = [hsent EXCEPT ![h] =
                    CompletionRequest(<<conversation_history[Len(conversation_history)]>>)]
    /\ hpc' = [hpc EXCEPT ![h] = "wait"]
    /\ last' = NoLast
    /\ UNCHANGED <<conversation_history, hbody, hpre, hreset, begun, turnlog>>
    /\ UNCHANGED startupVars

\* Lines 208-213: the call is issued with the list conversation_history names now.
ChatCall(h) ==
    /\ pc = "serving"
    /\ hpc[h] = "call"
    /\ hsent' = [hsent EXCEPT ![h] = CompletionRequest(conversation_history)]
    /\ hpc' = [hpc EXCEPT ![h] = "wait"]
    /\ last' = NoLast
    /\ UNCHANGED <<conversation_history, hbody, hpre, hreset, begun, turnlog>>
    /\ UNCHANGED startupVars

\* A handler that sends the reply back without appending it to the history.
ChatReplyNoAppend(h) ==
    /\ pc = "serving"
    /\ hpc[h] = "wait"
    /\ \E reply \in Replies :
        /\ turnlog' = Append(turnlog, <<hbody[h], reply>>)
        /\ last' = [Completed("chat", h, 200, hbody[h], TRUE, hpre[h], hsent[h], reply)
                        EXCEPT !.resets = hreset[h]]
    /\ Release(h)
    /\ UNCHANGED <<conversation_history, begun>>
    /\ UNCHANGED startupVars

\* Lines 216-224: the call returned a reply text; it is appended to the list
\* conversation_history names now and sent back.
ChatReply(h) ==
    /\ pc = "serving"
    /\ hpc[h] = "wait"
    /\ \E reply \in Replies :
        /\ conversation_history' = Append(conversation_history, Message("assistant", reply))
        /\ turnlog' = Append(turnlog, <<hbody[h], reply>>)
        /\ last' = [Completed("chat", h, 200, hbody[h], TRUE, hpre[h], hsent[h], reply)
                        EXCEPT !.resets = hreset[h]]
    /\ Release(h)
    /\ UNCHANGED begun
    /\ UNCHANGED startupVars

\* Lines 209-217 raising: control goes to line 226.
ChatFails(h) ==
    /\ pc = "serving"
    /\ hpc[h] = "wait"
    /\ \E e \in ChatFailures : hpc' = [hpc EXCEPT ![h] = "except"]
    /\ last' = NoLast
    /\ UNCHANGED <<conversation_history, hbody, hpre, hsent, hreset, begun, turnlog>>
    /\ UNCHANGED startupVars

\* A rollback that looks at the first message of the history instead of the last.
EndsWithUserAtHead(history) ==
    history # <<>> /\ history[1].role = "user"

\* A rollback that pops whatever message is last, whoever wrote it.
EndsWithAnything(history) == history # <<>>

\* Line 230, the condition of the rollback.
EndsWithUser(history) ==
    history # <<>> /\ history[Len(history)].role = "user"

\* Lines 226-230 and 232: the condition of the rollback is evaluated; when it is false
\* the request is answered with 500 straight away.
RollbackCheck(h) ==
    /\ pc = "serving"
    /\ hpc[h] = "except"
    /\ IF EndsWithUser(conversation_history)
          THEN /\ hpc' = [hpc EXCEPT ![h] = "pop"]
               /\ last' = NoLast
               /\ UNCHANGED <<hbody, hpre, hsent, hreset>>
          ELSE /\ last' = [Completed("chat", h, 500, hbody[h], hbody[h] # NoMessage,
                                     hpre[h], hsent[h], "Internal Server Error")
                               EXCEPT !.resets = hreset[h]]
               /\ Release(h)
    /\ UNCHANGED <<conversation_history, begun, turnlog>>
    /\ UNCHANGED startupVars

\* A rollback that removes nothing.
PopNothing(history) == history

\* list.pop() on the list conversation_history names now; on an empty list it raises
\* IndexError out of the handler and the list stays as it is.
Pop(history) ==
    IF history = <<>> THEN history ELSE SubSeq(history, 1, Len(history) - 1)

\* Lines 231-232: the pop, then the answer 500.
RollbackPop(h) ==
    /\ pc = "serving"
    /\ hpc[h] = "pop"
    /\ conversation_history' = Pop(conversation_history)
    /\ last' = [Completed("chat", h, 500, hbody[h], hbody[h] # NoMessage,
                          hpre[h], hsent[h], "Internal Server Error")
                    EXCEPT !.resets = hreset[h]]
    /\ Release(h)
    /\ UNCHANGED <<begun, turnlog>>
    /\ UNCHANGED startupVars

\* A reset to the empty list of line 241 instead of the seed of line 239.
ResetChatEmpty ==
    /\ pc = "serving"
    /\ conversation_history' = <<>>
    /\ turnlog' = <<>>
    /\ last' = Completed("reset", "", 200, NoMessage, FALSE, conversation_history, NoRequest, "ok")
    /\ hreset' = [h \in Handlers |-> hreset[h] \/ InFlight(h)]
    /\ UNCHANGED <<hpc, hbody, hpre, hsent, begun>>
    /\ UNCHANGED startupVars

\* Lines 234-243: /reset rebinds conversation_history to a fresh seed list.
ResetChat ==
    /\ pc = "serving"
    /\ conversation_history' = Seed
    /\ turnlog' = <<>>
    /\ last' = Completed("reset", "", 200, NoMessage, FALSE, conversation_history, NoRequest, "ok")
    /\ hreset' = [h \in Handlers |-> hreset[h] \/ InFlight(h)]
    /\ UNCHANGED <<hpc, hbody, hpre, hsent, begun>>
    /\ UNCHANGED startupVars

----------------------------------------------------------------------------
(* Specifications *)

ProbeNext == ProbeAttempt \/ ProbeGiveUp

ProvisionNext ==
    \/ ListModels
    \/ ModelPresent
    \/ PullRequest
    \/ PullRequestFails
    \/ PullLine
    \/ PullBroken
    \/ PullEnd
    \/ Verify

MainNext == MainExit \/ MainServe

\* A request in progress takes its next step.
HandlerStep(h) ==
    \/ ChatCall(h)
    \/ ChatReply(h)
    \/ ChatFails(h)
    \/ RollbackCheck(h)
    \/ RollbackPop(h)

\* The program as it runs: start-up, then requests handled by concurrent threads.
Next ==
    \/ ProbeNext
    \/ ProvisionNext
    \/ MainNext
    \/ \E h \in Handlers : ChatBegin(h) \/ HandlerStep(h)
    \/ ResetChat

\* The same program when its clients send one request at a time.
SeqNext ==
    \/ ProbeNext
    \/ ProvisionNext
    \/ MainNext
    \/ \E h \in Handlers : (AllIdle /\ ChatBegin(h)) \/ HandlerStep(h)
    \/ (AllIdle /\ ResetChat)

\* The start-up alone: wait_for_ollama and the __main__ block.
StartNext == ProbeNext \/ ProvisionNext \/ MainNext

\* __main__ calls wait_for_ollama() with its default timeout.
Init == StartupInit(DEFAULT_TIMEOUT)

\* wait_for_ollama called with any timeout.
InitProbe == \E t \in Timeouts : StartupInit(t)

Spec == Init /\ [][Next]_vars
SpecSeq == Init /\ [][SeqNext]_vars
SpecStart == Init /\ [][StartNext]_vars
SpecProbe == InitProbe /\ [][ProbeNext]_vars

----------------------------------------------------------------------------
(* The conversation: claims C1 to C4 *)

Served == pc = "serving"

\* The history a sequence of successful turns builds on the seed.
RECURSIVE Flatten(_)
Flatten(log) ==
    IF log = <<>> THEN <<>>
    ELSE <<Message("user", Head(log)[1]), Message("assistant", Head(log)[2])>>
         \o Flatten(Tail(log))

\* A /chat request with a text has just been answered 500: its turn failed after the
\* user message was appended.
FailedTurnDone == last.op = "chat" /\ last.status = 500 /\ last.body \in UserTexts

\* C1: with requests handled one at a time, a /chat turn that fails after its user
\* message was appended leaves conversation_history equal to what it was before the
\* turn began.
C1_FailedTurnRestoresHistory ==
    FailedTurnDone => conversation_history = last.pre

C1_Witness ==
    /\ FailedTurnDone
    /\ last.called
    /\ Len(last.pre) = 3
    /\ last.sent.messages = Append(last.pre, Message("user", last.body))
    /\ conversation_history = last.pre

\* C2: with requests handled one at a time, whenever no request is in progress the
\* history is the seed followed by one user message and one assistant message for
\* each successful turn since the last reset, in the order of the turns; its length
\* is the seed's length plus twice the number of those turns.
C2_SeedPlusTwoPerTurn ==
    (Served /\ AllIdle) =>
        /\ Len(conversation_history) = Len(Seed) + 2 * Len(turnlog)
        /\ SubSeq(conversation_history, 1, Len(Seed)) = Seed
        /\ \A i \in 1..Len(turnlog) :
            /\ conversation_history[Len(Seed) + 2 * i - 1] = Message("user", turnlog[i][1])
            /\ conversation_history[Len(Seed) + 2 * i] = Message("assistant", turnlog[i][2])
        /\ conversation_history = Seed \o Flatten(turnlog)

C2_Witness ==
    /\ Served /\ AllIdle
    /\ Len(turnlog) = 2
    /\ turnlog[1] # turnlog[2]
    /\ Len(conversation_history) = 5
    /\ conversation_history[4].role = "user"
    /\ conversation_history[5].role = "assistant"

\* C3: a /chat request with an empty message is answered 400 with an error payload,
\* without changing conversation_history and without a backend call, whatever the
\* history and whatever the other threads are doing.
C3_EmptyMessageRejected ==
    (last.op = "chat" /\ last.body = "") =>
        /\ last.status = 400
        /\ last.payload = "Empty message"
        /\ ~last.called
        /\ last.sent = NoRequest
        /\ conversation_history = last.pre
        /\ Idle(last.h)

C3_Witness ==
    /\ last.op = "chat" /\ last.body = ""
    /\ last.status = 400
    /\ Len(conversation_history) > 1
    /\ conversation_history = last.pre
    /\ \E h \in Handlers : hpc[h] = "wait"

\* C4: /reset always answers ok and leaves conversation_history equal to the seed,
\* whatever the history was, and it can always be taken while the server runs.
C4_ResetRestoresSeed ==
    /\ last.op = "reset" => (conversation_history = Seed /\ last.status = 200 /\ last.payload = "ok")
    /\ Served => ENABLED ResetChat

C4_Witness ==
    /\ last.op = "reset"
    /\ Len(last.pre) > 1
    /\ last.pre[Len(last.pre)].role = "assistant"
    /\ begun = 2 /\ Len(turnlog) = 0
    /\ conversation_history = Seed

----------------------------------------------------------------------------
(* Provisioning: claims C5 to C7 *)

\* The listing holds a descriptor whose identifier is the target model.
ContainsTarget(data) == \E i \in 1..Len(data) : Identifier(data[i]) = MODEL_NAME

\* The chunks that carry an error field.
ErrorChunks == {l \in PullLines : JsonLoads(l).dict /\ JsonLoads(l).error # Absent}

\* C5: when the first listing succeeds and holds a descriptor whose identifier is the
\* target model, wait_for_ollama returns True, and that run issues no pull request
\* and no second listing.
C5_PresentModelSkipsPull ==
    (listing.kind = "List" /\ ContainsTarget(listing.data)) =>
        /\ pc \in {"check", "returned"}
        /\ pc = "check" => (ENABLED ModelPresent /\ ~ENABLED PullRequest /\ ~ENABLED PullRequestFails)
        /\ pc = "returned" => ret = "True"
        /\ pullCalls = 0
        /\ listCalls = 1
        /\ final_list = NoListing

C5_Witness ==
    /\ pc = "returned"
    /\ listing.kind = "List"
    /\ Len(listing.data) = 2
    /\ listing.data[1].id = OTHER_MODEL
    /\ listing.data[2] = [id |-> Absent, name |-> MODEL_NAME]
    /\ ret = "True"
    /\ pullCalls = 0

\* The first listing failed: it raised, returned a falsy response, a response without
\* data, or data that is no list.
ListingFailed == listing.kind \in ListFailureKinds

\* C6: when the first listing fails in any way, wait_for_ollama still goes on to the
\* pull; when the pull stream then ends without an error chunk and the verification
\* listing holds the target model, it returns True.
C6_ListFailureStillPulls ==
    ListingFailed =>
        /\ ~model_exists
        /\ pc = "check" => (ENABLED PullRequest /\ ~ENABLED ModelPresent)
        /\ pc # "check" => pullCalls = 1
        /\ (pc = "returned" /\ final_list.kind = "List" /\ ContainsTarget(final_list.data)) =>
               /\ ret = "True"
               /\ idx = Len(lines)
               /\ \A i \in 1..Len(lines) : lines[i] \notin ErrorChunks

C6_Witness ==
    /\ pc = "returned"
    /\ listing.kind = "NoData"
    /\ pullCalls = 1
    /\ lines = <<"statusA", "garbage">>
    /\ idx = 2
    /\ final_list.kind = "List" /\ ContainsTarget(final_list.data)
    /\ listCalls = 2
    /\ ret = "True"

\* The loop over the pull stream has consumed a chunk that carries an error field.
ConsumedError == \E i \in 1..idx : lines[i] \in ErrorChunks

\* C7: once the pull stream has yielded a chunk with an error field, wait_for_ollama
\* has returned False: that chunk is the last one consumed, no verification listing
\* is issued and the pull is not issued again.
C7_ErrorChunkAborts ==
    ConsumedError =>
        /\ pc = "returned"
        /\ ret = "False"
        /\ lines[idx] \in ErrorChunks
        /\ \A i \in 1..(idx - 1) : lines[i] \notin ErrorChunks
        /\ final_list = NoListing
        /\ listCalls = 1
        /\ pullCalls = 1

C7_Witness ==
    /\ ConsumedError
    /\ lines = <<"statusError", "statusB">>
    /\ idx = 1
    /\ shown = <<"pulling manifest">>
    /\ pc = "returned"
    /\ ret = "False"

----------------------------------------------------------------------------
(* Start-up and serving: claim C8 *)

\* Some request has been received or answered, or the history has been touched.
RequestSeen ==
    \/ ~AllIdle
    \/ last # NoLast
    \/ begun > 0
    \/ conversation_history # Seed

\* C8: requests are served only after the probe succeeded and wait_for_ollama
\* returned True; when it returns False the process exits and no request is served.
C8_ServesOnlyAfterStartup ==
    /\ Served => (alive /\ ret = "True")
    /\ RequestSeen => Served
    /\ ret = "False" => pc \in {"returned", "exited"}
    /\ (pc = "returned" /\ ret = "False") => (ENABLED MainExit /\ ~ENABLED MainServe)
    /\ pc = "exited" => (ret = "False" /\ ~ENABLED Next)

C8_Witness ==
    /\ Served
    /\ alive /\ ret = "True"
    /\ last.op = "chat" /\ last.status = 200
    /\ Len(conversation_history) = 3

----------------------------------------------------------------------------
(* The liveness probe: claims C9 and C10 *)

\* The probe gave up: the loop ended without a successful request.
ProbeFailed == pc = "returned" /\ ~alive

\* C9 as stated: a probe whose attempts all fail reports failure once the elapsed time
\* has reached the timeout and exceeds it by less than one polling interval of 5; with
\* timeout 0 it issues no attempt.
C9_Original ==
    ProbeFailed =>
        /\ clock >= timeout
        /\ clock - timeout < RETRY_SLEEP
        /\ timeout = 0 => attempts = 0

\* C9, amended: a probe whose attempts all fail reports failure once the elapsed time
\* has reached the timeout and exceeds it by less than one per-attempt timeout plus
\* one polling interval (10); with timeout 0 it issues no attempt.
C9_FailureWithinOnePass ==
    ProbeFailed =>
        /\ ret = "False"
        /\ clock >= timeout
        /\ clock - timeout < PROBE_TIMEOUT + RETRY_SLEEP
        /\ timeout = 0 => attempts = 0

C9_Witness ==
    /\ ProbeFailed
    /\ attempts = 2
    /\ clock - timeout = PROBE_TIMEOUT + RETRY_SLEEP - 1

\* The probe has just succeeded, on attempt number attempts.
ProbeSucceeded == pc = "alive"

\* C10 as stated: a probe that first succeeds on its Nth attempt has used at most N
\* polling intervals of 5, and issues no attempt after that success.
C10_Original ==
    /\ ProbeSucceeded => clock <= attempts * RETRY_SLEEP
    /\ alive => ~ENABLED ProbeAttempt

\* C10, amended: a probe that first succeeds on its Nth attempt has used at most N - 1
\* polling intervals and N per-attempt timeouts (10 * N - 5), and issues no attempt
\* after that success.
C10_SuccessWithinNPasses ==
    /\ ProbeSucceeded =>
           /\ attempts >= 1
           /\ clock <= (attempts - 1) * (PROBE_TIMEOUT + RETRY_SLEEP) + PROBE_TIMEOUT
    /\ alive => ~ENABLED ProbeAttempt

C10_Witness ==
    /\ ProbeSucceeded
    /\ attempts = 2
    /\ clock = 2 * PROBE_TIMEOUT + RETRY_SLEEP

----------------------------------------------------------------------------
(* A successful turn: claim C11 *)

\* A /chat request has just been answered 200.
TurnSucceeded == last.op = "chat" /\ last.status = 200

----------------------------------------------------------------------------
(* Verification and the pull stream: claims C12 and C13 *)

\* C12: after a pull stream that ended without an error chunk the models are listed
\* once more, exactly once, and wait_for_ollama returns True exactly when that
\* listing is a list that holds the target model; in every other case it returns
\* False.
C12_VerifyDecides ==
    /\ pc = "verify" =>
           /\ idx = Len(lines)
           /\ \A i \in 1..Len(lines) : lines[i] \notin ErrorChunks
           /\ final_list = NoListing
           /\ listCalls = 1
           /\ ENABLED Verify
    /\ final_list # NoListing =>
           /\ pc = "returned"
           /\ listCalls = 2
           /\ pullCalls = 1
           /\ ret = "True" <=> (final_list.kind = "List" /\ ContainsTarget(final_list.data))
           /\ ret \in {"True", "False"}

C12_Witness ==
    /\ pc = "returned"
    /\ final_list.kind = "List"
    /\ Len(final_list.data) = 2
    /\ ~ContainsTarget(final_list.data)
    /\ listCalls = 2
    /\ ret = "False"

\* The lines that are no error chunk: status chunks, empty lines and lines that do
\* not decode to a dict.
BenignLines == PullLines \ ErrorChunks

\* The stream being read holds no error chunk.
BenignStream == \A i \in 1..Len(lines) : lines[i] \in BenignLines

\* C13: while a stream without an error chunk is being read, consuming a line, be it
\* a status chunk, an empty line or a malformed one, never ends the pull: the loop
\* moves on to the next line, can always take it, and goes to the verification once
\* every line is consumed.
C13_MalformedLinesSkipped ==
    /\ [][(pc = "stream" /\ BenignStream /\ idx' # idx) =>
              (pc' = "stream" /\ idx' = idx + 1 /\ ret' = ret /\ lines' = lines)]_vars
    /\ []((pc = "stream" /\ idx < Len(lines)) => ENABLED PullLine)
    /\ []((pc = "stream" /\ idx = Len(lines)) => ENABLED PullEnd)
    /\ [](pc = "verify" => idx = Len(lines))

C13_Witness ==
    /\ pc = "verify"
    /\ lines = <<"garbage", "empty">>
    /\ idx = 2
    /\ ret = "none"

----------------------------------------------------------------------------
(* The backend call: claim C14 *)

\* The thread has issued its backend call and waits for the result.
Calling(h) == hpc[h] = "wait"

----------------------------------------------------------------------------
(* What a run of wait_for_ollama requests: claim C17 *)

\* A listing that succeeded and holds the target model.
ListedTarget(out) == out.kind = "List" /\ ContainsTarget(out.data)

\* wait_for_ollama is running or has just returned: its counts are those of this run.
InRun == pc \in {"probe", "alive", "check", "stream", "verify", "returned"}

\* C17: wait_for_ollama returns True only if the first listing or the verification
\* listing of the run succeeded and contained the target model; a run issues at most
\* one pull request and at most two listing requests, the pull only after a first
\* listing attempt that did not find the model, and no listing before the liveness
\* probe succeeded.
C17_RequestsOfOneRun ==
    InRun =>
        /\ (pc = "returned" /\ ret = "True") =>
               (ListedTarget(listing) \/ ListedTarget(final_list))
        /\ pullCalls <= 1
        /\ listCalls <= 2
        /\ pullCalls = 1 => (listCalls >= 1 /\ listing # NoListing /\ ~ListedTarget(listing))
        /\ listCalls = 2 => pullCalls = 1
        /\ listCalls > 0 => alive
        /\ pullCalls > 0 => alive

C17_Witness ==
    /\ pc = "returned"
    /\ ret = "True"
    /\ alive
    /\ listCalls = 2
    /\ pullCalls = 1
    /\ ~ListedTarget(listing)
    /\ ListedTarget(final_list)

----------------------------------------------------------------------------
(* A request that fails before its append: claim C19 *)

\* A /chat request without a message field was answered in the latest step.
MalformedDone == last.op = "chat" /\ last.status = 500 /\ last.body = NoMessage

\* The role of the last message of a history, Absent when there is none.
LastRole(history) == IF history = <<>> THEN Absent ELSE history[Len(history)].role

\* C19: with requests handled one at a time, a /chat request whose body has no message
\* field is answered with 500 without a backend call and leaves conversation_history as
\* it was; the rollback removes nothing because no history between two sequential
\* requests ends with a user message, so the thread never reaches the pop.
C19_MalformedLeavesHistory ==
    /\ MalformedDone =>
           /\ conversation_history = last.pre
           /\ ~last.called
           /\ last.sent = NoRequest
    /\ (Served /\ AllIdle) => LastRole(conversation_history) \in {"system", "assistant"}
    /\ \A h \in Handlers :
           (hpc[h] \in {"except", "pop"} /\ hbody[h] = NoMessage) =>
               /\ hpc[h] = "except"
               /\ conversation_history = hpre[h]
               /\ LastRole(conversation_history) # "user"

C19_Witness ==
    /\ MalformedDone
    /\ AllIdle
    /\ Len(last.pre) = 3
    /\ LastRole(last.pre) = "assistant"
    /\ conversation_history = last.pre

----------------------------------------------------------------------------
(* Overlapping requests: claims C15, C16, C18 and C20 *)

\* The messages of a history, as a set.
Range(history) == {history[i] : i \in 1..Len(history)}

\* Message i of the history is a user message followed at once by the reply its own
\* turn received.
PairedWithOwnReply(history, i) ==
    /\ i < Len(history)
    /\ history[i + 1].role = "assistant"
    /\ \E k \in 1..Len(turnlog) :
           turnlog[k] = <<history[i].content, history[i + 1].content>>

\* C15: when two /chat turns overlap, the rollback of the turn that fails discards
\* that turn's own user message and no message of the other turn: the message of a
\* turn still in flight, untouched by any /reset, is in the history when the failed
\* turn is answered. Consequently, once both turns have finished, every user message
\* left in the history is immediately followed by the assistant reply to that turn.
C15_RollbackTakesOwnMessage ==
    /\ FailedTurnDone =>
           \A g \in Handlers :
               (InFlight(g) /\ ~hreset[g]) =>
                   Message("user", hbody[g]) \in Range(conversation_history)
    /\ (Served /\ AllIdle) =>
           \A i \in 1..Len(conversation_history) :
               conversation_history[i].role = "user" =>
                   PairedWithOwnReply(conversation_history, i)

\* A /chat turn with text was answered in the latest step, and a /reset ran while it
\* was in flight.
ResetMidTurnDone == last.op = "chat" /\ last.body \in UserTexts /\ last.resets

\* C16: a /reset that runs while a /chat turn is in flight discards that turn's
\* conversation: once the turn has finished as well, succeeded or failed, and no
\* other turn has written to the history in the whole run, the history is the seed.
C16_ResetDiscardsTurnInFlight ==
    (ResetMidTurnDone /\ AllIdle /\ begun = 1) => conversation_history = Seed

\* C18: in every reachable state conversation_history is non-empty and its first
\* element is the seed system message.
C18_SeedAlwaysFirst ==
    /\ conversation_history # <<>>
    /\ conversation_history[1] = Seed[1]

\* How many user messages in a row the history ends with.
RECURSIVE TrailingUsers(_)
TrailingUsers(history) ==
    IF history = <<>> \/ history[Len(history)].role # "user"
       THEN 0
       ELSE 1 + TrailingUsers(SubSeq(history, 1, Len(history) - 1))

\* The threads whose turn has appended its user message and is not answered yet.
AppendedTurns == {h \in Handlers : ~Idle(h) /\ hbody[h] \in UserTexts}

\* C20: the number of consecutive user messages at the end of conversation_history
\* never exceeds the number of /chat turns in flight after their append; hence when no
\* request is in progress the last message of the history is not a user message.
C20_TrailingUsersAreInFlight ==
    /\ TrailingUsers(conversation_history) <= Cardinality(AppendedTurns)
    /\ AllIdle => LastRole(conversation_history) # "user"

====
